---------------------------- MODULE Spec2Model ----------------------------
(***************************************************************************)
(* A model of ktm_can/decoder.py: the bit primitives, the generator        *)
(* Decoder.decode (one step per resumption of the generator) and a         *)
(* consumer that creates, resumes, abandons and re-creates generators on   *)
(* one Decoder.                                                            *)
(***************************************************************************)
EXTENDS Integers, Sequences, FiniteSets, TLC

(***************************************************************************)
(* Bounds of the model.                                                    *)
(***************************************************************************)
\* payloads run from 0 bytes to FrameLen + MaxExtra bytes
MaxExtra == 1
\* number of base payload patterns the consumer's frames are cut from
NumBases == 5
\* number of base payload patterns whose bytes are probed with every value
NumProbeBases == 2

\* the layouts index the payload bytes D0..D7
FrameLen == 8

(***************************************************************************)
(* Python integer operators.  Python integers are unbounded two's          *)
(* complement: -1 is an infinite run of one bits.                          *)
(***************************************************************************)
RECURSIVE BitAnd(_, _)
BitAnd(a, b) ==
    IF a = 0 \/ b = 0 THEN 0
    ELSE IF a = -1 THEN b
    ELSE IF b = -1 THEN a
    ELSE (a % 2) * (b % 2) + 2 * BitAnd(a \div 2, b \div 2)

RECURSIVE BitOr(_, _)
BitOr(a, b) ==
    IF a = 0 THEN b
    ELSE IF b = 0 THEN a
    ELSE IF a = -1 \/ b = -1 THEN -1
    ELSE (IF a % 2 = 1 \/ b % 2 = 1 THEN 1 ELSE 0) + 2 * BitOr(a \div 2, b \div 2)

BitNot(a) == -a - 1

RECURSIVE Pow2(_)
Pow2(n) == IF n = 0 THEN 1 ELSE 2 * Pow2(n - 1)

Shl(a, n) == a * Pow2(n)

Shr(a, n) == a \div Pow2(n)

(***************************************************************************)
(* Python sequence operators on msg.data (0-based).                        *)
(***************************************************************************)
\* data[i] raises IndexError unless i < len(data)
HasIndex(data, i) == i < Len(data)

At(data, i) == data[i + 1]

\* data[lo:hi], clipped to the length of data
Slice(data, lo, hi) == SubSeq(data, lo + 1, IF hi < Len(data) THEN hi ELSE Len(data))

\* struct.unpack(">H", s) raises struct.error unless len(s) = 2
unpack_ok(s) == Len(s) = 2

unpack_H(s) == s[1] * 256 + s[2]

\* x / 10.0: the double nearest to x/10, which prints with one decimal
div10(x) == [whole |-> x \div 10, tenths |-> x % 10]

\* "{:02X}".format(n), n >= 0: uppercase hex, zero padded to two digits
HexDigits == <<"0", "1", "2", "3", "4", "5", "6", "7",
               "8", "9", "A", "B", "C", "D", "E", "F">>

RECURSIVE Hex(_)
Hex(n) == IF n < 16 THEN HexDigits[n + 1] ELSE Hex(n \div 16) \o HexDigits[(n % 16) + 1]

format02X(n) == IF n < 16 THEN "0" \o Hex(n) ELSE Hex(n)

\* " ".join(tokens)
RECURSIVE join(_)
join(tokens) ==
    IF Len(tokens) = 0 THEN ""
    ELSE IF Len(tokens) = 1 THEN tokens[1]
    ELSE tokens[1] \o " " \o join(Tail(tokens))

(***************************************************************************)
(* The module's bit primitives.                                            *)
(***************************************************************************)
lo_nibble(b) == BitAnd(b, 15)

hi_nibble(b) == BitAnd(Shr(b, 4), 15)

\* mutant: the sign bit is not negated
signed12_unsigned(value) == BitOr(BitAnd(value, 2048), BitAnd(value, 2047))

signed12(value) == BitOr(-BitAnd(value, 2048), BitAnd(value, 2047))

(***************************************************************************)
(* The values Decoder.decode computes, one operator per yielded value.     *)
(***************************************************************************)
\* id 0x120
rpm120(data) == unpack_H(Slice(data, 0, 2))

throttle(data) == At(data, 2)

\* mutant: the masked bit is not shifted down
kill_switch_unshifted(data) == BitAnd(At(data, 3), 16)

kill_switch(data) == Shr(BitAnd(At(data, 3), 16), 4)

throttle_map(data) == BitAnd(At(data, 4), 1)

\* mutant: the kill-switch bit is not masked out of byte 3
unmapped120_unmasked(data) ==
    join(<< "__",
            "__",
            "__",
            format02X(At(data, 3)),
            format02X(BitAnd(At(data, 4), BitAnd(BitNot(1), 255))),
            format02X(At(data, 5)),
            format02X(At(data, 6)),
            "__" >>)

unmapped120(data) ==
    join(<< "__",
            "__",
            "__",
            format02X(BitAnd(At(data, 3), BitAnd(BitNot(16), 255))),
            format02X(BitAnd(At(data, 4), BitAnd(BitNot(1), 255))),
            format02X(At(data, 5)),
            format02X(At(data, 6)),
            "__" >>)

\* id 0x129
gear(data) == hi_nibble(At(data, 0))

clutch_in(data) == Shr(BitAnd(At(data, 0), 8), 3) = 1

unmapped129(data) ==
    join(<< "__",
            format02X(At(data, 1)),
            format02X(At(data, 2)),
            format02X(At(data, 3)),
            format02X(At(data, 4)),
            format02X(At(data, 5)),
            format02X(At(data, 6)),
            "__" >>)

\* id 0x12A
requested_throttle_map(data) == Shr(BitAnd(At(data, 1), 64), 6)

unmapped12A(data) ==
    join(<< format02X(At(data, 0)),
            format02X(BitAnd(At(data, 1), BitAnd(BitNot(64), 255))),
            format02X(At(data, 2)),
            format02X(At(data, 3)),
            format02X(At(data, 4)),
            format02X(At(data, 5)),
            format02X(At(data, 6)),
            format02X(At(data, 7)) >>)

\* id 0x12B
tilt(data) == signed12(BitOr(Shl(At(data, 5), 4), hi_nibble(At(data, 6))))

lean(data) == signed12(BitOr(Shl(lo_nibble(At(data, 6)), 8), At(data, 7)))

unmapped12B(data) ==
    join(<< "__",
            "__",
            format02X(At(data, 2)),
            format02X(At(data, 3)),
            "__",
            "__",
            "__",
            "__" >>)

\* id 0x540
rpm540(data) == unpack_H(Slice(data, 1, 3))

kickstand_up(data) == BitAnd(At(data, 4), 1) = 1

kickstand_err(data) == Shr(BitAnd(At(data, 4), 128), 7) = 1

coolant_temp(data) == div10(unpack_H(Slice(data, 6, Len(data))))

unmapped540(data) ==
    join(<< "__",
            "__",
            "__",
            format02X(At(data, 3)),
            format02X(BitAnd(At(data, 4), 126)),
            "__",
            "__",
            "__" >>)

(***************************************************************************)
(* Decoder.decode is a generator.  decodeXXX(emit, msg, k) is what the     *)
(* generator does when it is resumed after its k-th yield: it yields the   *)
(* next (id, key, value) tuple, raises, or returns.                        *)
(***************************************************************************)
Yield(id, key, value) == [kind |-> "yield", sig |-> <<id, key, value>>]

Raise(e) == [kind |-> "raise", err |-> e]

Return == [kind |-> "return"]

\* mutant: the tentative name loses its question mark
TiltKey_renamed == "tilt"

\* the names of the tuples yielded for id 0x12B
TiltKey == "tilt?"

LeanKey == "lean?"

decode120(emit, msg, k) ==
    LET data == msg.data IN
    CASE k = 0 -> IF ~unpack_ok(Slice(data, 0, 2)) THEN Raise("struct.error")
                  ELSE Yield(msg.id, "rpm", rpm120(data))
      [] k = 1 -> IF ~HasIndex(data, 2) THEN Raise("IndexError")
                  ELSE Yield(msg.id, "throttle", throttle(data))
      [] k = 2 -> IF ~HasIndex(data, 3) THEN Raise("IndexError")
                  ELSE Yield(msg.id, "kill_switch", kill_switch(data))
      [] k = 3 -> IF ~HasIndex(data, 4) THEN Raise("IndexError")
                  ELSE Yield(msg.id, "throttle_map", throttle_map(data))
      [] k = 4 -> IF ~emit THEN Return
                  ELSE IF \E i \in 3..6 : ~HasIndex(data, i) THEN Raise("IndexError")
                  ELSE Yield(msg.id, "unmapped", unmapped120(data))
      [] OTHER -> Return

\* mutant: the unmapped tuple is yielded without looking at emit_unmapped
decode129_always_unmapped(emit, msg, k) ==
    LET data == msg.data IN
    CASE k = 0 -> IF ~HasIndex(data, 0) THEN Raise("IndexError")
                  ELSE Yield(msg.id, "gear", gear(data))
      [] k = 1 -> IF ~HasIndex(data, 0) THEN Raise("IndexError")
                  ELSE Yield(msg.id, "clutch_in", clutch_in(data))
      [] k = 2 -> IF \E i \in 1..6 : ~HasIndex(data, i) THEN Raise("IndexError")
                  ELSE Yield(msg.id, "unmapped", unmapped129(data))
      [] OTHER -> Return

decode129(emit, msg, k) ==
    LET data == msg.data IN
    CASE k = 0 -> IF ~HasIndex(data, 0) THEN Raise("IndexError")
                  ELSE Yield(msg.id, "gear", gear(data))
      [] k = 1 -> IF ~HasIndex(data, 0) THEN Raise("IndexError")
                  ELSE Yield(msg.id, "clutch_in", clutch_in(data))
      [] k = 2 -> IF ~emit THEN Return
                  ELSE IF \E i \in 1..6 : ~HasIndex(data, i) THEN Raise("IndexError")
                  ELSE Yield(msg.id, "unmapped", unmapped129(data))
      [] OTHER -> Return

decode12A(emit, msg, k) ==
    LET data == msg.data IN
    CASE k = 0 -> IF ~HasIndex(data, 1) THEN Raise("IndexError")
                  ELSE Yield(msg.id, "requested_throttle_map", requested_throttle_map(data))
      [] k = 1 -> IF ~emit THEN Return
                  ELSE IF \E i \in 0..7 : ~HasIndex(data, i) THEN Raise("IndexError")
                  ELSE Yield(msg.id, "unmapped", unmapped12A(data))
      [] OTHER -> Return

decode12B(emit, msg, k) ==
    LET data == msg.data IN
    CASE k = 0 -> IF ~HasIndex(data, 5) \/ ~HasIndex(data, 6) THEN Raise("IndexError")
                  ELSE Yield(msg.id, TiltKey, tilt(data))
      [] k = 1 -> IF ~HasIndex(data, 6) \/ ~HasIndex(data, 7) THEN Raise("IndexError")
                  ELSE Yield(msg.id, LeanKey, lean(data))
      [] k = 2 -> IF ~emit THEN Return
                  ELSE IF \E i \in 2..3 : ~HasIndex(data, i) THEN Raise("IndexError")
                  ELSE Yield(msg.id, "unmapped", unmapped12B(data))
      [] OTHER -> Return

\* the assert statements on the constant bytes D0 and D5
assertD0(data) == At(data, 0) = 2

\* mutant: the assert on D5 is missing
assertD5_skipped(data) == TRUE

assertD5(data) == At(data, 5) = 0

decode540(emit, msg, k) ==
    LET data == msg.data IN
    CASE k = 0 -> IF ~HasIndex(data, 0) THEN Raise("IndexError")
                  ELSE IF ~assertD0(data) THEN Raise("AssertionError")
                  ELSE IF ~unpack_ok(Slice(data, 1, 3)) THEN Raise("struct.error")
                  ELSE Yield(msg.id, "rpm", rpm540(data))
      [] k = 1 -> IF ~HasIndex(data, 4) THEN Raise("IndexError")
                  ELSE Yield(msg.id, "kickstand_up", kickstand_up(data))
      [] k = 2 -> IF ~HasIndex(data, 4) THEN Raise("IndexError")
                  ELSE Yield(msg.id, "kickstand_err", kickstand_err(data))
      [] k = 3 -> IF ~HasIndex(data, 5) THEN Raise("IndexError")
                  ELSE IF ~assertD5(data) THEN Raise("AssertionError")
                  ELSE IF ~unpack_ok(Slice(data, 6, Len(data))) THEN Raise("struct.error")
                  ELSE Yield(msg.id, "coolant_temp", coolant_temp(data))
      [] k = 4 -> IF ~emit THEN Return
                  ELSE IF \E i \in 3..4 : ~HasIndex(data, i) THEN Raise("IndexError")
                  ELSE Yield(msg.id, "unmapped", unmapped540(data))
      [] OTHER -> Return

\* mutant: the last elif is an else, so every other id is decoded as 0x540
decode_else540(emit, msg, k) ==
    IF msg.id = 288 THEN decode120(emit, msg, k)
    ELSE IF msg.id = 297 THEN decode129(emit, msg, k)
    ELSE IF msg.id = 298 THEN decode12A(emit, msg, k)
    ELSE IF msg.id = 299 THEN decode12B(emit, msg, k)
    ELSE decode540(emit, msg, k)

\* the if/elif chain on msg.id; no branch: the generator returns at once
decode(emit, msg, k) ==
    IF msg.id = 288 THEN decode120(emit, msg, k)
    ELSE IF msg.id = 297 THEN decode129(emit, msg, k)
    ELSE IF msg.id = 298 THEN decode12A(emit, msg, k)
    ELSE IF msg.id = 299 THEN decode12B(emit, msg, k)
    ELSE IF msg.id = 1344 THEN decode540(emit, msg, k)
    ELSE Return

\* list(Decoder(emit).decode(msg)) on a fresh decoder: the tuples received and
\* how the generator ended
RECURSIVE consume(_, _, _, _)
consume(emit, msg, k, got) ==
    LET step == decode(emit, msg, k) IN
    IF step.kind = "yield" THEN consume(emit, msg, k + 1, Append(got, step.sig))
    ELSE IF step.kind = "raise" THEN [out |-> got, status |-> "raised", err |-> step.err]
    ELSE [out |-> got, status |-> "returned", err |-> "none"]

Outcome(emit, msg) == consume(emit, msg, 0, <<>>)

(***************************************************************************)
(* The frames of the model.                                                *)
(***************************************************************************)
\* 0x120, 0x129, 0x12A, 0x12B, 0x540
KnownIds == {288, 297, 298, 299, 1344}

\* 0x200 stands for every id without a branch in decode
Ids == KnownIds \cup {512}

\* base payloads: 1 and 2 pass both asserts of 0x540; 3 fails only the assert
\* on D5; 4 fails only the assert on D0; 5 fails both; 6 is the all-zero frame
BaseRows ==
    << <<2, 26, 43, 16, 129, 0, 1, 44>>,
       <<2, 255, 255, 255, 255, 0, 255, 255>>,
       <<2, 26, 43, 60, 129, 7, 1, 44>>,
       <<24, 64, 85, 170, 126, 0, 143, 240>>,
       <<255, 255, 255, 255, 255, 255, 255, 255>>,
       <<2, 0, 0, 0, 0, 0, 0, 0>> >>

\* the first n bytes of base payload i; bytes past D7 are filler
BasePayload(i, n) == [j \in 1..n |-> IF j <= FrameLen THEN BaseRows[i][j] ELSE 90]

\* frames of every length from 0 to FrameLen + MaxExtra
Frames ==
    { [id |-> id, data |-> BasePayload(i, n)] :
        id \in Ids, i \in 1..NumBases, n \in 0..(FrameLen + MaxExtra) }

\* full frames in which one byte takes every value 0..255
ProbeFrames ==
    { [id |-> id, data |-> [BasePayload(i, FrameLen) EXCEPT ![p] = v]] :
        id \in KnownIds, i \in 1..NumProbeBases, p \in 1..FrameLen, v \in 0..255 }

NoMsg == [id |-> -1, data |-> <<>>]

(***************************************************************************)
(* State: one Decoder, the Message in hand, the generator the consumer     *)
(* holds and what the consumer has received from it.                       *)
(***************************************************************************)
VARIABLES
    emit_unmapped,  \* Decoder.emit_unmapped
    msg,            \* the Message in hand (Message.id, Message.data), or NoMsg
    status,         \* "idle", "suspended", "returned", "raised", "closed"
    pc,             \* the number of yields the generator has made
    out,            \* the tuples the consumer received from the generator
    err,            \* the exception that ended the generator, or "none"
    prev,           \* how the previous generator on this Decoder ended, or "none"
    value,          \* the argument of a direct call of signed12
    called,         \* whether signed12 was called
    result          \* what signed12 returned

vars == <<emit_unmapped, msg, status, pc, out, err, prev, value, called, result>>

Ended == {"returned", "raised", "closed"}

\* Decoder(emit_unmapped), no Message yet
Init ==
    /\ emit_unmapped \in BOOLEAN
    /\ msg = NoMsg
    /\ status = "idle"
    /\ pc = 0
    /\ out = <<>>
    /\ err = "none"
    /\ prev = "none"
    /\ value = 0
    /\ called = FALSE
    /\ result = 0

\* Message(sender_id, data)
NewMessage(m) ==
    /\ msg = NoMsg
    /\ msg' = m
    /\ UNCHANGED <<emit_unmapped, status, pc, out, err, prev, value, called, result>>

\* mutant: the position is kept on the Decoder and survives into the next call
Call_keeps_position ==
    /\ msg # NoMsg
    /\ status \in Ended \cup {"idle"}
    /\ status' = "suspended"
    /\ out' = <<>>
    /\ err' = "none"
    /\ prev' = IF status \in Ended THEN status ELSE prev
    /\ UNCHANGED <<emit_unmapped, msg, pc, value, called, result>>

\* gen = decoder.decode(msg): creates the generator, runs none of its body
Call ==
    /\ msg # NoMsg
    /\ status \in Ended \cup {"idle"}
    /\ status' = "suspended"
    /\ pc' = 0
    /\ out' = <<>>
    /\ err' = "none"
    /\ prev' = IF status \in Ended THEN status ELSE prev
    /\ UNCHANGED <<emit_unmapped, msg, value, called, result>>

\* next(gen): the body runs to its next yield, to an exception or to its end
Resume ==
    /\ status = "suspended"
    /\ LET step == decode(emit_unmapped, msg, pc) IN
         /\ status' = IF step.kind = "yield" THEN "suspended"
                      ELSE IF step.kind = "raise" THEN "raised" ELSE "returned"
         /\ pc' = IF step.kind = "yield" THEN pc + 1 ELSE pc
         /\ out' = IF step.kind = "yield" THEN Append(out, step.sig) ELSE out
         /\ err' = IF step.kind = "raise" THEN step.err ELSE "none"
    /\ UNCHANGED <<emit_unmapped, msg, prev, value, called, result>>

\* the consumer abandons the generator part-way (gen.close(), or it is dropped)
Close ==
    /\ status = "suspended"
    /\ status' = "closed"
    /\ UNCHANGED <<emit_unmapped, msg, pc, out, err, prev, value, called, result>>

\* the consumer is done with the frame; the Decoder lives on
Discard ==
    /\ status \in Ended
    /\ msg' = NoMsg
    /\ status' = "idle"
    /\ pc' = 0
    /\ out' = <<>>
    /\ err' = "none"
    /\ prev' = status
    /\ UNCHANGED <<emit_unmapped, value, called, result>>

Next ==
    \/ \E m \in Frames : NewMessage(m)
    \/ Call
    \/ Resume
    \/ Close
    \/ Discard

Spec == Init /\ [][Next]_vars

(***************************************************************************)
(* SpecLayout: a fresh Decoder is handed one probe frame and its generator *)
(* is consumed to the end.                                                 *)
(***************************************************************************)
InitLayout ==
    /\ emit_unmapped \in BOOLEAN
    /\ msg \in ProbeFrames
    /\ status = "suspended"
    /\ pc = 0
    /\ out = <<>>
    /\ err = "none"
    /\ prev = "none"
    /\ value = 0
    /\ called = FALSE
    /\ result = 0

NextLayout == Resume

SpecLayout == InitLayout /\ [][NextLayout]_vars

(***************************************************************************)
(* SpecSigned12: signed12 is called on a 12-bit value.                     *)
(***************************************************************************)
InitSigned12 ==
    /\ emit_unmapped = FALSE
    /\ msg = NoMsg
    /\ status = "idle"
    /\ pc = 0
    /\ out = <<>>
    /\ err = "none"
    /\ prev = "none"
    /\ value \in 0..4095
    /\ called = FALSE
    /\ result = 0

CallSigned12 ==
    /\ ~called
    /\ called' = TRUE
    /\ result' = signed12(value)
    /\ UNCHANGED <<emit_unmapped, msg, status, pc, out, err, prev, value>>

NextSigned12 == CallSigned12

SpecSigned12 == InitSigned12 /\ [][NextSigned12]_vars

(***************************************************************************)
(* Properties.  The layout table is restated here in plain arithmetic,     *)
(* independently of the bit operators the decoder uses.                    *)
(***************************************************************************)
\* bit n of byte b (bit 7 is the most significant)
Bit(b, n) == (b \div Pow2(n)) % 2

\* byte b with bit n flipped
Flip(b, n) == IF Bit(b, n) = 1 THEN b - Pow2(n) ELSE b + Pow2(n)

\* the 12-bit pattern u read as a two's-complement number
TwosComplement12(u) == IF u >= 2048 THEN u - 4096 ELSE u

\* byte i (0-based) of the payload in hand
B(i) == msg.data[i + 1]

FullFrame == msg # NoMsg /\ Len(msg.data) = FrameLen

\* the payload in hand passes the constant checks of id 0x540
ConstantsOk == B(0) = 2 /\ B(5) = 0

\* the keys of the tuples in a sequence
Keys(seq) == [i \in 1..Len(seq) |-> seq[i][2]]

\* the keys of the named signals of each known id, in order
NamedKeys(id) ==
    CASE id = 288 -> <<"rpm", "throttle", "kill_switch", "throttle_map">>
      [] id = 297 -> <<"gear", "clutch_in">>
      [] id = 298 -> <<"requested_throttle_map">>
      [] id = 299 -> <<TiltKey, LeanKey>>
      [] id = 1344 -> <<"rpm", "kickstand_up", "kickstand_err", "coolant_temp">>
      [] OTHER -> <<>>

\* the value the layout table gives the n-th named signal of the frame in hand
TableValueOk(n, v) ==
    CASE msg.id = 288 /\ n = 1 -> v = 256 * B(0) + B(1)
      [] msg.id = 288 /\ n = 2 -> v = B(2)
      [] msg.id = 288 /\ n = 3 ->
            /\ v = Bit(B(3), 4)
            /\ v \in {0, 1}
            /\ \A j \in (0..7) \ {4} :
                 kill_switch([msg.data EXCEPT ![4] = Flip(B(3), j)]) = v
      [] msg.id = 288 /\ n = 4 ->
            /\ v = Bit(B(4), 0)
            /\ v \in {0, 1}
            /\ \A j \in 1..7 :
                 throttle_map([msg.data EXCEPT ![5] = Flip(B(4), j)]) = v
      [] msg.id = 297 /\ n = 1 -> v = B(0) \div 16
      [] msg.id = 297 /\ n = 2 -> v = (Bit(B(0), 3) = 1)
      [] msg.id = 298 /\ n = 1 ->
            /\ v = Bit(B(1), 6)
            /\ v \in {0, 1}
            /\ \A j \in (0..7) \ {6} :
                 requested_throttle_map([msg.data EXCEPT ![2] = Flip(B(1), j)]) = v
      [] msg.id = 299 /\ n = 1 -> v = TwosComplement12(16 * B(5) + B(6) \div 16)
      [] msg.id = 299 /\ n = 2 -> v = TwosComplement12(256 * (B(6) % 16) + B(7))
      [] msg.id = 1344 /\ n = 1 -> v = 256 * B(1) + B(2)
      [] msg.id = 1344 /\ n = 2 -> v = (Bit(B(4), 0) = 1)
      [] msg.id = 1344 /\ n = 3 -> v = (Bit(B(4), 7) = 1)
      [] msg.id = 1344 /\ n = 4 ->
            /\ v.tenths \in 0..9
            /\ 10 * v.whole + v.tenths = 256 * B(6) + B(7)
      [] OTHER -> FALSE

\* C1: for every 8-byte payload that passes the 0x540 constant checks, the
\* named signals decode emits are, in order, those of the layout table of the
\* frame's id, each with the value the table gives; kill_switch, throttle_map
\* and requested_throttle_map are 0 or 1 and do not change when another bit of
\* their source byte is flipped.
C1_LayoutTable ==
    (FullFrame /\ msg.id \in KnownIds /\ (msg.id = 1344 => ConstantsOk)) =>
        LET named == NamedKeys(msg.id) IN
        /\ \A n \in 1..Len(out) :
             IF n <= Len(named)
             THEN out[n][2] = named[n] /\ TableValueOk(n, out[n][3])
             ELSE out[n][2] = "unmapped"
        /\ status = "returned" => Len(out) >= Len(named)

\* C1 witness: a fully decoded 0x120 frame whose kill-switch byte has every bit
\* set.
C1_Witness ==
    /\ FullFrame
    /\ status = "returned"
    /\ msg.id = 288
    /\ B(3) = 255
    /\ Len(out) >= 4
    /\ out[3] = <<288, "kill_switch", 1>>

\* C2: for a 12-bit v, signed12(v) is v when bit 11 is clear and v - 4096 when
\* it is set; so it lies in -2048..2047, is congruent to v modulo 4096, and
\* equals -(v & 0x800) + (v & 0x7FF).
C2_Signed12 ==
    called =>
        /\ result = (IF Bit(value, 11) = 0 THEN value ELSE value - 4096)
        /\ result \in -2048..2047
        /\ (result - value) % 4096 = 0
        /\ result = -(2048 * Bit(value, 11)) + (value % 2048)
        /\ value = 0 => result = 0
        /\ value = 1 => result = 1
        /\ value = 2048 => result = -2048
        /\ value = 4095 => result = -1

\* C2 witness: signed12 has returned -2048 for 0x800.
C2_Witness == called /\ value = 2048 /\ result = -2048

\* the errors of a payload that is too short (or, for ">H", of the wrong size)
Malformed == {"IndexError", "struct.error"}

\* C3: for id 0x540 and an 8-byte payload, consuming decode ends in the
\* assertion error exactly when bytes[0] # 0x02 or bytes[5] # 0x00, whatever
\* emit_unmapped is; the assertion error is no malformed-payload error: an
\* 8-byte frame never ends in one of those, and an assertion error always
\* comes with a wrong constant byte.
C3_StructuralInvariant ==
    (msg.id = 1344 /\ status \in {"returned", "raised"}) =>
        /\ FullFrame =>
             /\ (status = "raised" /\ err = "AssertionError") <=> ~ConstantsOk
             /\ err \notin Malformed
        /\ err = "AssertionError" =>
             /\ Len(msg.data) >= 1
             /\ B(0) # 2 \/ (Len(msg.data) >= 6 /\ B(5) # 0)
        /\ err \in Malformed => Len(msg.data) # FrameLen

\* C3 witness: with emit_unmapped set, an 8-byte 0x540 frame with the right
\* bytes[0] and a wrong bytes[5] has ended in the assertion error.
C3_Witness ==
    /\ emit_unmapped
    /\ FullFrame
    /\ msg.id = 1344
    /\ B(0) = 2
    /\ B(5) # 0
    /\ status = "raised"
    /\ err = "AssertionError"

\* C4: for an id outside the five known ones and any payload, of any length,
\* decode yields nothing and raises nothing, whatever emit_unmapped is.
C4_UnknownId ==
    (msg # NoMsg /\ msg.id \notin KnownIds) =>
        /\ out = <<>>
        /\ status # "raised"
        /\ err = "none"
        /\ status = "suspended" => decode(emit_unmapped, msg, pc).kind = "return"

\* C4 witness: with emit_unmapped set, the generator of a short frame of id
\* 0x200 has returned.
C4_Witness ==
    /\ emit_unmapped
    /\ msg.id = 512
    /\ Len(msg.data) = 3
    /\ status = "returned"

\* C5 (as claimed): for a known id and a payload of fewer than 8 bytes, consuming
\* decode never completes normally: it ends in an error.
C5_ShortPayloadRaises ==
    (msg.id \in KnownIds /\ Len(msg.data) < FrameLen) => status # "returned"

\* the closed vocabulary of signal names, as the specification lists it
ClaimedVocabulary ==
    {"rpm", "throttle", "kill_switch", "gear", "clutch_in", "tilt", "lean",
     "coolant_temp", "kickstand_up", "kickstand_err", "requested_throttle_map",
     "throttle_map", "unmapped"}

\* the names decode yields
Vocabulary ==
    {"rpm", "throttle", "kill_switch", "gear", "clutch_in", "tilt?", "lean?",
     "coolant_temp", "kickstand_up", "kickstand_err", "requested_throttle_map",
     "throttle_map", "unmapped"}

\* C6 (as claimed): every signal has a name of the closed vocabulary, the two
\* signals of id 0x12B are named "tilt" and "lean", and every signal carries
\* the id of its frame.
C6_ClaimedNames ==
    /\ \A n \in 1..Len(out) : out[n][2] \in ClaimedVocabulary /\ out[n][1] = msg.id
    /\ (msg.id = 299 /\ Len(out) >= 1) => out[1][2] = "tilt"
    /\ (msg.id = 299 /\ Len(out) >= 2) => out[2][2] = "lean"

\* C6 (amended): every signal has a name of the vocabulary in which the two
\* signals of id 0x12B are named "tilt?" and "lean?", and every signal carries
\* the id of its frame.
C6_Names ==
    /\ \A n \in 1..Len(out) : out[n][2] \in Vocabulary /\ out[n][1] = msg.id
    /\ (msg.id = 299 /\ Len(out) >= 1) => out[1][2] = "tilt?"
    /\ (msg.id = 299 /\ Len(out) >= 2) => out[2][2] = "lean?"

\* C6 witness: with emit_unmapped set, a 0x12B frame has been decoded to its
\* three signals.
C6_Witness ==
    /\ emit_unmapped
    /\ msg.id = 299
    /\ status = "returned"
    /\ Len(out) = 3

\* the bits of byte i that the named fields of the id consume
ConsumedMask(id, i) ==
    CASE id = 288 /\ i \in {0, 1, 2} -> 255
      [] id = 288 /\ i = 3 -> 16
      [] id = 288 /\ i = 4 -> 1
      [] id = 297 /\ i = 0 -> 248
      [] id = 298 /\ i = 1 -> 64
      [] id = 299 /\ i \in {5, 6, 7} -> 255
      [] id = 1344 /\ i \in {1, 2, 6, 7} -> 255
      [] id = 1344 /\ i = 4 -> 129
      [] OTHER -> 0

\* byte b with the bits of mask set to zero
ClearBits(b, mask) ==
    LET f[j \in 0..8] ==
          IF j = 8 THEN 0
          ELSE (IF Bit(mask, j) = 0 THEN Bit(b, j) * Pow2(j) ELSE 0) + f[j + 1]
    IN f[0]

\* two uppercase hex digits
TwoHex(n) == HexDigits[(n \div 16) + 1] \o HexDigits[(n % 16) + 1]

\* eight tokens separated by single spaces
Spaced(t) ==
    t[1] \o " " \o t[2] \o " " \o t[3] \o " " \o t[4] \o " " \o
    t[5] \o " " \o t[6] \o " " \o t[7] \o " " \o t[8]

\* token i as claimed: the placeholder exactly for a byte the named fields
\* consume entirely, else the byte in hex with the consumed bits cleared
ClaimedToken(i) ==
    IF ConsumedMask(msg.id, i) = 255 THEN "__"
    ELSE TwoHex(ClearBits(B(i), ConsumedMask(msg.id, i)))

\* the bytes decode renders as the placeholder
PlaceholderBytes(id) ==
    CASE id = 288 -> {0, 1, 2, 7}
      [] id = 297 -> {0, 7}
      [] id = 298 -> {}
      [] id = 299 -> {0, 1, 4, 5, 6, 7}
      [] id = 1344 -> {0, 1, 2, 5, 6, 7}
      [] OTHER -> {}

Token(i) ==
    IF i \in PlaceholderBytes(msg.id) THEN "__"
    ELSE TwoHex(ClearBits(B(i), ConsumedMask(msg.id, i)))

\* a known id, emit_unmapped set, a valid 8-byte payload, decoded to the end
UnmappedCase ==
    /\ emit_unmapped
    /\ FullFrame
    /\ msg.id \in KnownIds
    /\ msg.id = 1344 => ConstantsOk
    /\ status = "returned"

\* C7 (as claimed): the value of the "unmapped" signal is 8 space-separated
\* tokens; token i is "__" exactly when byte i is entirely consumed by a named
\* field; any other byte is shown as two uppercase hex digits with the bits
\* that named fields consume masked to zero.
C7_ClaimedUnmapped ==
    UnmappedCase =>
        /\ Len(out) = Len(NamedKeys(msg.id)) + 1
        /\ out[Len(out)][2] = "unmapped"
        /\ out[Len(out)][3] = Spaced([i \in 1..8 |-> ClaimedToken(i - 1)])

\* C7 (amended): token i is "__" exactly when byte i is entirely consumed by a
\* named field, or is the counter byte 7 of 0x120 or 0x129, one of the
\* always-zero bytes 0, 1, 4 of 0x12B, one of the constant bytes 0, 5 of 0x540,
\* or byte 0 of 0x129; any other byte is shown as two uppercase hex digits with
\* the bits that named fields consume masked to zero.
C7_Unmapped ==
    UnmappedCase =>
        /\ Len(out) = Len(NamedKeys(msg.id)) + 1
        /\ out[Len(out)][2] = "unmapped"
        /\ out[Len(out)][3] = Spaced([i \in 1..8 |-> Token(i - 1)])
        /\ \A i \in 0..7 :
             i \in PlaceholderBytes(msg.id) <=>
                \/ ConsumedMask(msg.id, i) = 255
                \/ msg.id \in {288, 297} /\ i = 7
                \/ msg.id = 299 /\ i \in {0, 1, 4}
                \/ msg.id = 1344 /\ i \in {0, 5}
                \/ msg.id = 297 /\ i = 0

\* C7 witness: the unmapped signal of a 0x120 frame whose partly consumed bytes
\* 3 and 4 have every bit set.
C7_Witness ==
    /\ UnmappedCase
    /\ msg.id = 288
    /\ B(3) = 255
    /\ B(4) = 255
    /\ out[5][3] = "__ __ __ EF FE 00 FF __"

\* C8: for a known id and a valid 8-byte payload, the sequence decoded with
\* emit_unmapped set is the sequence decoded without it followed by one signal
\* named "unmapped"; without the flag no "unmapped" signal is emitted.
C8_FlagOnlyAppends ==
    (FullFrame /\ msg.id \in KnownIds /\ (msg.id = 1344 => ConstantsOk)
       /\ status = "returned") =>
        LET other == Outcome(~emit_unmapped, msg) IN
        /\ other.status = "returned"
        /\ \A n \in 1..Len(out) :
             out[n][2] = "unmapped" <=> (emit_unmapped /\ n = Len(out))
        /\ Keys(IF emit_unmapped THEN other.out ELSE out) = NamedKeys(msg.id)
        /\ IF emit_unmapped
           THEN /\ Len(out) = Len(other.out) + 1
                /\ SubSeq(out, 1, Len(out) - 1) = other.out
           ELSE /\ Len(other.out) = Len(out) + 1
                /\ SubSeq(other.out, 1, Len(out)) = out
                /\ other.out[Len(other.out)][2] = "unmapped"

\* C8 witness: a valid 0x540 frame decoded with the flag set: four named
\* signals and then the unmapped one.
C8_Witness ==
    /\ emit_unmapped
    /\ FullFrame
    /\ msg.id = 1344
    /\ status = "returned"
    /\ Len(out) = 5
    /\ out[5][2] = "unmapped"

\* C9: whatever calls came before on this Decoder (ended, failed or abandoned),
\* what the consumer has received is what a fresh Decoder with the same flag
\* yields for the frame, and a generator that has ended has ended as the fresh
\* one does; no step changes the Decoder's flag or the Message in hand.
C9_Stateless ==
    /\ [](status \in {"suspended", "returned", "raised", "closed"} =>
            LET fresh == Outcome(emit_unmapped, msg) IN
            /\ pc = Len(out)
            /\ pc <= Len(fresh.out)
            /\ out = SubSeq(fresh.out, 1, pc)
            /\ status \in {"returned", "raised"} =>
                 /\ out = fresh.out
                 /\ status = fresh.status
                 /\ err = fresh.err)
    /\ [][/\ emit_unmapped' = emit_unmapped
          /\ (msg # NoMsg /\ msg' # NoMsg) => msg' = msg]_vars

\* C9 witness: a frame decoded to the end, with signals, on a Decoder whose
\* previous generator ended in an error.
C9_Witness ==
    /\ status = "returned"
    /\ prev = "raised"
    /\ Len(out) > 0

\* C10 (as claimed): from an 8-byte 0x540 frame whose constant bytes are wrong
\* the consumer receives no signal.
C10_NoSignalBeforeAssert ==
    (FullFrame /\ msg.id = 1344 /\ ~ConstantsOk) => out = <<>>

=============================================================================
